---- MODULE Spec2Model ----
(***************************************************************************)
(* Model of the openorf client's search highlighting and subtitle snippet  *)
(* extraction (highlightText and the TVSegment element), of its MainPage   *)
(* element (load, search, broadcast selection), and of the server's        *)
(* /api/news handler and scrape loop.                                      *)
(*                                                                         *)
(* Strings are sequences of one-character atoms.  Positions are 0-based,   *)
(* as in the source; a span is a record [start, end) of 0-based positions. *)
(***************************************************************************)
EXTENDS Integers, Sequences, FiniteSets, TLC

VARIABLES
    \* highlightText(text, tokens) and its locals
    text, tokens, matches, mergedMatches, highlighted, hlPc,
    \* TVSegment: segment.subtitles, searchTokens, showFullTranscript, and the
    \* value getMatchingSubtitles() returned to the last render
    subtitlesRaw, searchTokens, showFullTranscript, subtitles, chunks, segPc,
    \* One call of the flatMap callback of highlightText: its token, and the
    \* loop's pos and positions
    scanToken, scanPos, scanPositions, scanPc,
    \* MainPage: its state fields (subtitles is pageSubtitles here), the
    \* Api.news requests awaited by calls of load(), the most recent call of
    \* load(), the pending search timeouts, and the handler that ran last
    data, query, selectedBroadcasts, searchResult, loading, error,
    startDate, endDate, pageSubtitles,
    pendingLoads, latestLoad, searchTimers, searchTimeout, pageOp,
    \* The server's scraping: the position of scrapeLoop(), the index in dates
    \* of the date checkAndScrapeHistorical() is at, the number of failed
    \* historical scrapes logged, and the position of continuousScrape()
    scrapePc, dateIdx, historicalFailures, continuousPc

hlVars == <<text, tokens, matches, mergedMatches, highlighted, hlPc>>
segVars == <<subtitlesRaw, searchTokens, showFullTranscript, subtitles, chunks, segPc>>
scanVars == <<scanToken, scanPos, scanPositions, scanPc>>
pageVars == <<data, query, selectedBroadcasts, searchResult, loading, error,
              startDate, endDate, pageSubtitles,
              pendingLoads, latestLoad, searchTimers, searchTimeout, pageOp>>
srvVars == <<scrapePc, dateIdx, historicalFailures, continuousPc>>
vars == <<hlVars, segVars, scanVars, pageVars, srvVars>>

----------------------------------------------------------------------------
(* Bounds of the model *)

MaxTextLen == 4
MaxTokens == 2
\* Transcripts: matching cues per transcript, malformed blocks per transcript
MaxMatchingCues == 3
MaxMalformed == 1
\* Iterations of the scan loop of one token that are followed
MaxScanSteps == 6
\* Calls of load() per page, and search timeouts pending at a time
MaxLoads == 2
MaxTimers == 1
\* Failed historical scrapes that are counted; further ones are followed
\* without being counted
MaxCountedFailures == 3

----------------------------------------------------------------------------
(* Characters *)

\* "Idot" stands for U+0130 (capital I with dot above), the one character
\* whose String.prototype.toLowerCase() result is two code units long:
\* "i" followed by "dot" (U+0307, combining dot above).
TextChars == {"a", "B", "Idot"}

OpenMark == "<mark>"
CloseMark == "</mark>"

Min(a, b) == IF a < b THEN a ELSE b
Max(a, b) == IF a > b THEN a ELSE b

\* All sequences over S of length lo..hi
SeqsOf(S, lo, hi) == UNION {[1..n -> S] : n \in lo..hi}

----------------------------------------------------------------------------
(* String primitives *)

\* String.prototype.toLowerCase, one character at a time
ToLowerCaseChar(c) ==
    CASE c = "A" -> <<"a">>
      [] c = "B" -> <<"b">>
      [] c = "X" -> <<"x">>
      [] c = "Idot" -> <<"i", "dot">>
      [] OTHER -> <<c>>

RECURSIVE ToLowerCase(_)
ToLowerCase(s) ==
    IF s = <<>> THEN <<>> ELSE ToLowerCaseChar(Head(s)) \o ToLowerCase(Tail(s))

\* True iff t occurs in s at 0-based position i
OccursAt(s, t, i) ==
    /\ i >= 0
    /\ i + Len(t) <= Len(s)
    /\ \A k \in 1..Len(t) : s[i + k] = t[k]

\* String.prototype.indexOf(t, pos): the least position >= pos where t occurs,
\* -1 when there is none; the empty string occurs at min(pos, length)
RECURSIVE IndexOf(_, _, _)
IndexOf(s, t, pos) ==
    IF t = <<>> THEN Min(pos, Len(s))
    ELSE IF pos + Len(t) > Len(s) THEN -1
    ELSE IF OccursAt(s, t, pos) THEN pos
    ELSE IndexOf(s, t, pos + 1)

\* String.prototype.includes(t)
Includes(s, t) == IndexOf(s, t, 0) # -1

\* String.prototype.slice(a, b) / Array.prototype.slice for non-negative a, b:
\* both ends are clamped to the length, an empty range gives the empty string
Slice(s, a, b) ==
    LET from == Min(a, Len(s))
        to == Min(b, Len(s))
    IN IF from >= to THEN <<>> ELSE SubSeq(s, from + 1, to)

SliceFrom(s, a) == Slice(s, a, Len(s))

\* Concatenation of the sequences ss[lo..hi], by halves
RECURSIVE ConcatRange(_, _, _)
ConcatRange(ss, lo, hi) ==
    IF lo > hi THEN <<>>
    ELSE IF lo = hi THEN ss[lo]
    ELSE LET mid == (lo + hi) \div 2
         IN ConcatRange(ss, lo, mid) \o ConcatRange(ss, mid + 1, hi)

Concat(ss) == ConcatRange(ss, 1, Len(ss))

\* String.prototype.split(sep) scans left to right and resumes behind each
\* separator it finds: an occurrence of sep at i separates unless it overlaps
\* an earlier occurrence that separates
RECURSIVE Separates(_, _, _)
Separates(s, sep, i) ==
    /\ OccursAt(s, sep, i)
    /\ \A j \in (i - Len(sep) + 1)..(i - 1) : ~Separates(s, sep, j)

\* The separating positions in lo..hi, ascending (collected by halves)
RECURSIVE SeparatorsIn(_, _, _, _)
SeparatorsIn(s, sep, lo, hi) ==
    IF lo > hi THEN <<>>
    ELSE IF lo = hi THEN (IF Separates(s, sep, lo) THEN <<lo>> ELSE <<>>)
    ELSE LET mid == (lo + hi) \div 2
         IN SeparatorsIn(s, sep, lo, mid) \o SeparatorsIn(s, sep, mid + 1, hi)

\* String.prototype.split(sep) for a non-empty separator: the pieces before,
\* between and behind the separators
Split(s, sep) ==
    LET at == SeparatorsIn(s, sep, 0, Len(s) - Len(sep))
    IN [k \in 1..(Len(at) + 1) |->
          Slice(s,
                IF k = 1 THEN 0 ELSE at[k - 1] + Len(sep),
                IF k <= Len(at) THEN at[k] ELSE Len(s))]

\* Array.prototype.join(sep)
RECURSIVE Join(_, _)
Join(parts, sep) ==
    IF parts = <<>> THEN <<>>
    ELSE IF Len(parts) = 1 THEN parts[1]
    ELSE parts[1] \o sep \o Join(Tail(parts), sep)

----------------------------------------------------------------------------
(* highlightText *)

\* The while loop of the flatMap callback: the positions of one token,
\* scanning from pos and resuming at each match's end
RECURSIVE Positions(_, _, _)
Positions(lowerText, value, pos) ==
    LET p == IndexOf(lowerText, value, pos)
    IN IF p = -1 THEN <<>>
       ELSE <<[start |-> p, end |-> p + Len(value)]>>
                \o Positions(lowerText, value, p + Len(value))

\* tokens.flatMap(...): the positions of every token, in token order
RECURSIVE FlatMapPositions(_, _)
FlatMapPositions(lowerText, toks) ==
    IF toks = <<>> THEN <<>>
    ELSE Positions(lowerText, Head(toks), 0) \o FlatMapPositions(lowerText, Tail(toks))

\* Insert m behind every element whose start is <= m.start (stable)
RECURSIVE InsertByStart(_, _)
InsertByStart(sorted, m) ==
    IF sorted = <<>> THEN <<m>>
    ELSE IF Head(sorted).start <= m.start
         THEN <<Head(sorted)>> \o InsertByStart(Tail(sorted), m)
         ELSE <<m>> \o sorted

RECURSIVE SortFrom(_, _)
SortFrom(acc, rest) ==
    IF rest = <<>> THEN acc ELSE SortFrom(InsertByStart(acc, Head(rest)), Tail(rest))

UnsortedMatches(ms) == ms

\* .sort((a, b) => a.start - b.start); Array.prototype.sort is stable
SortByStart(ms) == SortFrom(<<>>, ms)

NeverMergeStep(acc, match) == Append(acc, match)

StrictMergeStep(acc, match) ==
    IF acc # <<>> /\ match.start < acc[Len(acc)].end
    THEN [acc EXCEPT ![Len(acc)].end = Max(acc[Len(acc)].end, match.end)]
    ELSE Append(acc, match)

\* The reduce callback: extend the last merged span or push a new one
MergeStep(acc, match) ==
    IF acc # <<>> /\ match.start <= acc[Len(acc)].end
    THEN [acc EXCEPT ![Len(acc)].end = Max(acc[Len(acc)].end, match.end)]
    ELSE Append(acc, match)

RECURSIVE Reduce(_, _)
Reduce(acc, ms) ==
    IF ms = <<>> THEN acc ELSE Reduce(MergeStep(acc, Head(ms)), Tail(ms))

\* matches.reduce(..., [])
MergeMatches(ms) == Reduce(<<>>, ms)

\* mergedMatches.forEach(...) followed by the trailing slice and the join
RECURSIVE BuildChunks(_, _, _)
BuildChunks(txt, merged, lastIndex) ==
    IF merged = <<>> THEN SliceFrom(txt, lastIndex)
    ELSE LET match == Head(merged)
         IN Slice(txt, lastIndex, match.start)
              \o <<OpenMark>> \o Slice(txt, match.start, match.end) \o <<CloseMark>>
              \o BuildChunks(txt, Tail(merged), match.end)

FoundMatches(txt, toks) == SortByStart(FlatMapPositions(ToLowerCase(txt), toks))

HighlightResult(txt, toks) ==
    IF toks = <<>> THEN txt
    ELSE BuildChunks(txt, MergeMatches(FoundMatches(txt, toks)), 0)

----------------------------------------------------------------------------
(* TVSegment *)

NL == "\n"
Null == [null |-> TRUE]

contextSize == 5

\* The number of dates checkAndScrapeHistorical() scrapes
HistoricalDays == 30

\* The map callback of parseSubtitles: block is the index-th block (0-based)
\* behind the header
ParseBlock(block, index) ==
    LET lines == Split(block, <<NL>>)
    IN IF Len(lines) < 3 THEN Null
       ELSE [index |-> index,
             time |-> lines[2],
             text |-> Join(SliceFrom(lines, 2), <<" ">>)]

NotNull(sub) == sub # Null

\* parseSubtitles(): split into blocks, skip the header, map, filter the nulls
ParseSubtitles(raw) ==
    IF raw = <<>> THEN <<>>
    ELSE LET blocks == SliceFrom(Split(raw, <<NL, NL>>), 1)
             mapped == [i \in 1..Len(blocks) |-> ParseBlock(blocks[i], i - 1)]
         IN SelectSeq(mapped, NotNull)

MatchesEveryToken(sub, toks) ==
    \A k \in 1..Len(toks) : Includes(ToLowerCase(sub.text), toks[k])

\* searchTokens.some((token) => sub.text.toLowerCase().includes(token.value))
MatchesAnyToken(sub, toks) ==
    \E k \in 1..Len(toks) : Includes(ToLowerCase(sub.text), toks[k])

\* Array.from(set).sort((a, b) => a - b)
RECURSIVE SortedIndices(_)
SortedIndices(set) ==
    IF set = {} THEN <<>>
    ELSE LET least == CHOOSE i \in set : \A j \in set : i <= j
         IN <<least>> \o SortedIndices(set \ {least})

\* createChunk(subtitles, matchIndices, contextSize)
CreateChunk(subs, matchIndices, size) ==
    LET firstMatch == matchIndices[1]
        lastMatch == matchIndices[Len(matchIndices)]
        startIdx == Max(0, firstMatch - size)
        endIdx == Min(Len(subs) - 1, lastMatch + size)
        matchSet == {matchIndices[k] : k \in 1..Len(matchIndices)}
        contextRange == Slice(subs, startIdx, endIdx + 1)
        NotAMatch(sub) == sub.index \notin matchSet
    IN [matches |-> [k \in 1..Len(matchIndices) |-> subs[matchIndices[k] + 1]],
        context |-> SelectSeq(contextRange, NotAMatch)]

GroupStepFromStart(subs, st, idx) ==
    IF st.currentChunkStart = -1
    THEN [st EXCEPT !.currentChunkStart = idx, !.currentChunkMatches = <<idx>>]
    ELSE IF idx <= st.currentChunkStart + contextSize * 2
    THEN [st EXCEPT !.currentChunkMatches = Append(@, idx)]
    ELSE [chunks |-> Append(st.chunks, CreateChunk(subs, st.currentChunkMatches, contextSize)),
          currentChunkStart |-> idx,
          currentChunkMatches |-> <<idx>>]

GroupStepNarrow(subs, st, idx) ==
    IF st.currentChunkStart = -1
    THEN [st EXCEPT !.currentChunkStart = idx, !.currentChunkMatches = <<idx>>]
    ELSE IF idx <= st.currentChunkMatches[Len(st.currentChunkMatches)] + contextSize
    THEN [st EXCEPT !.currentChunkMatches = Append(@, idx)]
    ELSE [chunks |-> Append(st.chunks, CreateChunk(subs, st.currentChunkMatches, contextSize)),
          currentChunkStart |-> idx,
          currentChunkMatches |-> <<idx>>]

\* The callback of sortedIndices.forEach; st holds the loop's variables
GroupStep(subs, st, idx) ==
    IF st.currentChunkStart = -1
    THEN [st EXCEPT !.currentChunkStart = idx, !.currentChunkMatches = <<idx>>]
    ELSE IF idx <= st.currentChunkMatches[Len(st.currentChunkMatches)] + contextSize * 2
    THEN [st EXCEPT !.currentChunkMatches = Append(@, idx)]
    ELSE [chunks |-> Append(st.chunks, CreateChunk(subs, st.currentChunkMatches, contextSize)),
          currentChunkStart |-> idx,
          currentChunkMatches |-> <<idx>>]

RECURSIVE GroupLoop(_, _, _)
GroupLoop(subs, st, indices) ==
    IF indices = <<>> THEN st
    ELSE GroupLoop(subs, GroupStep(subs, st, Head(indices)), Tail(indices))

GroupChunksDropLast(subs, sortedIndices) ==
    GroupLoop(subs,
              [chunks |-> <<>>, currentChunkStart |-> -1, currentChunkMatches |-> <<>>],
              sortedIndices).chunks

\* "Group matches into chunks" up to "Add the last chunk"
GroupChunks(subs, sortedIndices) ==
    LET st == GroupLoop(subs,
                        [chunks |-> <<>>, currentChunkStart |-> -1,
                         currentChunkMatches |-> <<>>],
                        sortedIndices)
    IN IF Len(st.currentChunkMatches) > 0
       THEN Append(st.chunks, CreateChunk(subs, st.currentChunkMatches, contextSize))
       ELSE st.chunks

\* The snippet branch of getMatchingSubtitles (tokens non-empty)
SnippetChunks(subs, toks) ==
    LET matchingIndices == {idx \in 0..(Len(subs) - 1) : MatchesAnyToken(subs[idx + 1], toks)}
    IN IF matchingIndices = {} THEN <<>>
       ELSE GroupChunks(subs, SortedIndices(matchingIndices))

\* The full-transcript branch of getMatchingSubtitles
FullTranscriptChunks(subs, toks) ==
    LET Matching(sub) == MatchesAnyToken(sub, toks)
    IN <<[matches |-> IF Len(toks) > 0 THEN SelectSeq(subs, Matching) ELSE <<>>,
          context |-> subs]>>

GetMatchingSubtitlesTokensFirst(subs, toks, full) ==
    IF Len(toks) = 0 THEN <<>>
    ELSE IF full THEN FullTranscriptChunks(subs, toks)
    ELSE SnippetChunks(subs, toks)

\* getMatchingSubtitles() behind its call of parseSubtitles()
GetMatchingSubtitles(subs, toks, full) ==
    IF full THEN FullTranscriptChunks(subs, toks)
    ELSE IF Len(toks) = 0 THEN <<>>
    ELSE SnippetChunks(subs, toks)

----------------------------------------------------------------------------
(* The server's /api/news *)

\* Dates are day numbers; Today is the day of new Date()
Today == 30

\* The days for which /data holds a schedule file
ScheduleDays == {0, Today}

\* JSON.parse of the file of a day; date is the hour of the broadcast counted
\* from day 0
ScheduleFile(day) ==
    CASE day = 0 ->
           <<[title |-> <<"A", "B">>, date |-> 19, genre |-> "ZIB & Info",
              description |-> <<"y">>, subtitles |-> <<"z">>],
             [title |-> <<"X">>, date |-> 20, genre |-> "Sport",
              description |-> <<"y">>, subtitles |-> <<"z">>]>>
      [] day = Today ->
           <<[title |-> <<"B", "X">>, date |-> 24 * Today + 13, genre |-> "ZIB & Info",
              description |-> <<"y">>, subtitles |-> <<"a">>],
             [title |-> <<"A", "B">>, date |-> 24 * Today + 19, genre |-> "ZIB & Info",
              description |-> <<"a">>, subtitles |-> <<"y">>]>>
      [] OTHER -> <<>>

Undefined == "undefined"

\* if (!subs) the subtitles of every item are set to undefined
WithoutSubtitles(list) == [i \in 1..Len(list) |-> [list[i] EXCEPT !.subtitles = Undefined]]

\* The loop over the dates from day to end: the items of every existing file
RECURSIVE ReadFiles(_, _, _)
ReadFiles(day, end, subs) ==
    IF day > end THEN <<>>
    ELSE (IF day \in ScheduleDays
          THEN (IF subs THEN ScheduleFile(day) ELSE WithoutSubtitles(ScheduleFile(day)))
          ELSE <<>>)
           \o ReadFiles(day + 1, end, subs)

IsZibInfo(item) == item.genre = "ZIB & Info"

\* Insert item behind every element whose date is >= item.date (stable)
RECURSIVE InsertByDateDesc(_, _)
InsertByDateDesc(sorted, item) ==
    IF sorted = <<>> THEN <<item>>
    ELSE IF Head(sorted).date >= item.date
         THEN <<Head(sorted)>> \o InsertByDateDesc(Tail(sorted), item)
         ELSE <<item>> \o sorted

\* .sort((a, b) => dateB.getTime() - dateA.getTime())
RECURSIVE SortByDateDesc(_, _)
SortByDateDesc(acc, rest) ==
    IF rest = <<>> THEN acc
    ELSE SortByDateDesc(InsertByDateDesc(acc, Head(rest)), Tail(rest))

\* The response of GET /api/news?start=..&end=..&subs=.. for start <= end
NewsFor(start, end, subs) ==
    SortByDateDesc(<<>>, SelectSeq(ReadFiles(start, end, subs), IsZibInfo))

----------------------------------------------------------------------------
(* MainPage *)

NoLoad == [id |-> 0, start |-> Today, end |-> Today, subs |-> TRUE, state |-> "none"]

\* String.prototype.trim
RECURSIVE TrimStart(_)
TrimStart(str) ==
    IF str # <<>> /\ Head(str) = " " THEN TrimStart(Tail(str)) ELSE str

RECURSIVE TrimEnd(_)
TrimEnd(str) ==
    IF str # <<>> /\ str[Len(str)] = " " THEN TrimEnd(SubSeq(str, 1, Len(str) - 1)) ELSE str

Trim(str) == TrimEnd(TrimStart(str))

NonEmpty(str) == str # <<>>

\* search(): the lowercased query split on whitespace; no tokens for a
\* trimmed query of fewer than 3 characters
Tokenize(q) ==
    IF Len(Trim(q)) < 3 THEN <<>>
    ELSE SelectSeq(Split(ToLowerCase(Trim(q)), <<" ">>), NonEmpty)

\* search(): any token is a substring of the title, of the description or,
\* when subtitles are searched, of the transcript
ItemMatches(item, toks, subsEnabled) ==
    \E k \in 1..Len(toks) :
        \/ Includes(ToLowerCase(item.title), toks[k])
        \/ Includes(ToLowerCase(item.description), toks[k])
        \/ /\ subsEnabled
           /\ item.subtitles # Undefined
           /\ Includes(ToLowerCase(item.subtitles), toks[k])

\* search(query, items, searchSubtitlesEnabled) of ../data/search.js
Search(q, list, subsEnabled) ==
    LET toks == Tokenize(q)
        Matching(item) == ItemMatches(item, toks, subsEnabled)
    IN [items |-> IF toks = <<>> THEN list ELSE SelectSeq(list, Matching),
        tokens |-> toks]

FilterBroadcastsAlways(list, selected) ==
    LET Selected(item) == item.title \in selected
    IN SelectSeq(list, Selected)

\* selectedBroadcasts.size > 0 ? list.filter(...) : list
FilterBroadcasts(list, selected) ==
    LET Selected(item) == item.title \in selected
    IN IF Cardinality(selected) > 0 THEN SelectSeq(list, Selected) ELSE list

\* MainPage.search(): the value it assigns to searchResult
SearchPage(q, list, selected, subsEnabled) ==
    IF Len(q) < 3
    THEN [items |-> FilterBroadcasts(list, selected), tokens |-> <<>>]
    ELSE LET result == Search(q, list, subsEnabled)
         IN [items |-> FilterBroadcasts(result.items, selected), tokens |-> result.tokens]

\* getUniqueBroadcasts(): the titles the broadcast buttons are rendered for
GetUniqueBroadcasts == {data[i].title : i \in 1..Len(data)}

\* The values of the date inputs; min and max keep start <= end
DateInputs == {<<0, 0>>, <<0, Today>>, <<Today, Today>>}

\* The values typed into the query input
QueryInputs ==
    {<<>>, <<" ", "a", "B", " ">>, <<"a", "b", " ", "z">>, <<"y", "y", "y">>}

----------------------------------------------------------------------------
(* Transcripts given to the TVSegment element *)

Repeat(x, n) == [i \in 1..n |-> x]

\* Cues before the first and behind the last matching cue: none, fewer than
\* contextSize, more than contextSize
Pads == {0, 4, 10}
\* Distance from one matching cue to the next: neighbours, exactly
\* 2 * contextSize, one more
Gaps == {1, 10, 11}

\* A transcript is laid out as a sequence of block kinds: "n" a cue without a
\* token, "m" a cue with a token, "d" a malformed block (fewer than 3 lines)
RECURSIVE GapKinds(_)
GapKinds(gaps) ==
    IF gaps = <<>> THEN <<>>
    ELSE Repeat("n", Head(gaps) - 1) \o <<"m">> \o GapKinds(Tail(gaps))

MatchLayout(lead, gaps, trail) ==
    Repeat("n", lead) \o <<"m">> \o GapKinds(gaps) \o Repeat("n", trail)

CueLayouts ==
    {Repeat("n", n) : n \in Pads}
      \cup (IF MaxMatchingCues = 0 THEN {}
            ELSE {MatchLayout(lead, gaps, trail) :
                    lead \in Pads, gaps \in SeqsOf(Gaps, 0, MaxMatchingCues - 1),
                    trail \in Pads})

\* Where a malformed block may stand: before the first block, right before and
\* right behind the first matching cue, behind the last block
MalformedSlots(kinds) ==
    LET ms == {i \in 1..Len(kinds) : kinds[i] = "m"}
        firstM == IF ms = {} THEN 0 ELSE CHOOSE i \in ms : \A j \in ms : i <= j
    IN {0, Len(kinds)} \cup (IF ms = {} THEN {} ELSE {firstM - 1, firstM})

\* kinds with a "d" put behind the first pos blocks, for every pos in slots
RECURSIVE WithMalformed(_, _)
WithMalformed(kinds, slots) ==
    IF slots = {} THEN kinds
    ELSE LET pos == CHOOSE i \in slots : \A j \in slots : i >= j
         IN WithMalformed(SubSeq(kinds, 1, pos) \o <<"d">> \o SubSeq(kinds, pos + 1, Len(kinds)),
                          slots \ {pos})

Layouts ==
    UNION {{WithMalformed(kinds, slots) :
              slots \in {sl \in SUBSET MalformedSlots(kinds) : Cardinality(sl) <= MaxMalformed}} :
           kinds \in CueLayouts}

\* The text of a block: identifier line, time line, text lines
BlockText(kind) ==
    CASE kind = "n" -> <<"1", NL, "t", NL, "y">>
      [] kind = "m" -> <<"1", NL, "t", NL, "y", NL, "X">>
      [] kind = "d" -> <<"1", NL, "x">>

\* The header block followed by the blocks, each behind a blank line
Transcript(kinds) ==
    <<"W">> \o Concat([i \in 1..Len(kinds) |-> <<NL, NL>> \o BlockText(kinds[i])])

\* <<>> is the absent transcript
Transcripts == {<<>>} \cup {Transcript(kinds) : kinds \in Layouts}

SegTokenLists == {<<>>, <<<<"z">>, <<"x">>>>}

----------------------------------------------------------------------------
(* Initial states *)

Texts == SeqsOf(TextChars, 0, MaxTextLen)
\* Non-empty lowercase tokens whose occurrences in the texts are equal, nested,
\* overlapping, touching and apart
TokenValues ==
    {<<"a">>, <<"b">>, <<"a", "a">>, <<"a", "b">>, <<"b", "a">>, <<"a", "b", "a">>}
TokenLists == SeqsOf(TokenValues, 0, MaxTokens)
\* Token values given to one call of the flatMap callback
ScanTokenValues == TokenValues \cup {<<>>}

\* highlightText is entered with a text and a token list; no TVSegment exists
HlInit ==
    /\ text \in Texts
    /\ tokens \in TokenLists
    /\ matches = <<>>
    /\ mergedMatches = <<>>
    /\ highlighted = <<>>
    /\ hlPc = "call"
    /\ subtitlesRaw = <<>>
    /\ searchTokens = <<>>
    /\ showFullTranscript = FALSE
    /\ subtitles = <<>>
    /\ chunks = <<>>
    /\ segPc = "idle"
    /\ scanToken = <<>>
    /\ scanPos = 0
    /\ scanPositions = <<>>
    /\ scanPc = "idle"
    /\ data = <<>>
    /\ query = <<>>
    /\ selectedBroadcasts = {}
    /\ searchResult = [items |-> <<>>, tokens |-> <<>>]
    /\ loading = TRUE
    /\ error = Undefined
    /\ startDate = Today
    /\ endDate = Today
    /\ pageSubtitles = TRUE
    /\ pendingLoads = {}
    /\ latestLoad = NoLoad
    /\ searchTimers = 0
    /\ searchTimeout = FALSE
    /\ pageOp = "idle"
    /\ scrapePc = "idle"
    /\ dateIdx = 0
    /\ historicalFailures = 0
    /\ continuousPc = "none"

\* A TVSegment with its properties set and showFullTranscript = false, before
\* its first render; highlightText is not running
SegInit ==
    /\ subtitlesRaw \in Transcripts
    /\ searchTokens \in SegTokenLists
    /\ showFullTranscript = FALSE
    /\ subtitles = <<>>
    /\ chunks = <<>>
    /\ segPc = "render"
    /\ text = <<>>
    /\ tokens = <<>>
    /\ matches = <<>>
    /\ mergedMatches = <<>>
    /\ highlighted = <<>>
    /\ hlPc = "idle"
    /\ scanToken = <<>>
    /\ scanPos = 0
    /\ scanPositions = <<>>
    /\ scanPc = "idle"
    /\ data = <<>>
    /\ query = <<>>
    /\ selectedBroadcasts = {}
    /\ searchResult = [items |-> <<>>, tokens |-> <<>>]
    /\ loading = TRUE
    /\ error = Undefined
    /\ startDate = Today
    /\ endDate = Today
    /\ pageSubtitles = TRUE
    /\ pendingLoads = {}
    /\ latestLoad = NoLoad
    /\ searchTimers = 0
    /\ searchTimeout = FALSE
    /\ pageOp = "idle"
    /\ scrapePc = "idle"
    /\ dateIdx = 0
    /\ historicalFailures = 0
    /\ continuousPc = "none"

\* The flatMap callback of highlightText is entered with one token, pos = 0
\* and no positions; text is the text highlightText was called with
ScanInit ==
    /\ text \in Texts
    /\ scanToken \in ScanTokenValues
    /\ scanPos = 0
    /\ scanPositions = <<>>
    /\ scanPc = "while"
    /\ tokens = <<>>
    /\ matches = <<>>
    /\ mergedMatches = <<>>
    /\ highlighted = <<>>
    /\ hlPc = "idle"
    /\ subtitlesRaw = <<>>
    /\ searchTokens = <<>>
    /\ showFullTranscript = FALSE
    /\ subtitles = <<>>
    /\ chunks = <<>>
    /\ segPc = "idle"
    /\ data = <<>>
    /\ query = <<>>
    /\ selectedBroadcasts = {}
    /\ searchResult = [items |-> <<>>, tokens |-> <<>>]
    /\ loading = TRUE
    /\ error = Undefined
    /\ startDate = Today
    /\ endDate = Today
    /\ pageSubtitles = TRUE
    /\ pendingLoads = {}
    /\ latestLoad = NoLoad
    /\ searchTimers = 0
    /\ searchTimeout = FALSE
    /\ pageOp = "idle"
    /\ scrapePc = "idle"
    /\ dateIdx = 0
    /\ historicalFailures = 0
    /\ continuousPc = "none"

\* A MainPage after construction and its first render
PageInit ==
    /\ data = <<>>
    /\ query = <<>>
    /\ selectedBroadcasts = {}
    /\ searchResult = [items |-> <<>>, tokens |-> <<>>]
    /\ loading = TRUE
    /\ error = Undefined
    /\ startDate = Today
    /\ endDate = Today
    /\ pageSubtitles = TRUE
    /\ pendingLoads = {}
    /\ latestLoad = NoLoad
    /\ searchTimers = 0
    /\ searchTimeout = FALSE
    /\ pageOp = "constructed"
    /\ text = <<>>
    /\ tokens = <<>>
    /\ matches = <<>>
    /\ mergedMatches = <<>>
    /\ highlighted = <<>>
    /\ hlPc = "idle"
    /\ subtitlesRaw = <<>>
    /\ searchTokens = <<>>
    /\ showFullTranscript = FALSE
    /\ subtitles = <<>>
    /\ chunks = <<>>
    /\ segPc = "idle"
    /\ scanToken = <<>>
    /\ scanPos = 0
    /\ scanPositions = <<>>
    /\ scanPc = "idle"
    /\ scrapePc = "idle"
    /\ dateIdx = 0
    /\ historicalFailures = 0
    /\ continuousPc = "none"

\* The server at its start, before scrapeLoop() is called; no page exists
ScrapeInit ==
    /\ scrapePc = "start"
    /\ dateIdx = 0
    /\ historicalFailures = 0
    /\ continuousPc = "none"
    /\ text = <<>>
    /\ tokens = <<>>
    /\ matches = <<>>
    /\ mergedMatches = <<>>
    /\ highlighted = <<>>
    /\ hlPc = "idle"
    /\ subtitlesRaw = <<>>
    /\ searchTokens = <<>>
    /\ showFullTranscript = FALSE
    /\ subtitles = <<>>
    /\ chunks = <<>>
    /\ segPc = "idle"
    /\ scanToken = <<>>
    /\ scanPos = 0
    /\ scanPositions = <<>>
    /\ scanPc = "idle"
    /\ data = <<>>
    /\ query = <<>>
    /\ selectedBroadcasts = {}
    /\ searchResult = [items |-> <<>>, tokens |-> <<>>]
    /\ loading = TRUE
    /\ error = Undefined
    /\ startDate = Today
    /\ endDate = Today
    /\ pageSubtitles = TRUE
    /\ pendingLoads = {}
    /\ latestLoad = NoLoad
    /\ searchTimers = 0
    /\ searchTimeout = FALSE
    /\ pageOp = "idle"

----------------------------------------------------------------------------
(* Actions *)

\* highlightText(text, tokens), run to its return
HighlightText ==
    /\ hlPc = "call"
    /\ matches' = IF tokens = <<>> THEN <<>> ELSE FoundMatches(text, tokens)
    /\ mergedMatches' = MergeMatches(matches')
    /\ highlighted' = IF tokens = <<>> THEN text ELSE BuildChunks(text, mergedMatches', 0)
    /\ hlPc' = "done"
    /\ UNCHANGED <<text, tokens, segVars, scanVars, pageVars, srvVars>>

HlNext == HighlightText

SpecHighlight == HlInit /\ [][HlNext]_vars

\* toggleFullTranscript(), and the click handler of the Show/Hide Subtitles
\* button, which render() shows for every segment that has subtitles; the
\* changed state makes the element render again
ToggleFullTranscript ==
    /\ segPc = "rendered"
    /\ showFullTranscript' = ~showFullTranscript
    /\ segPc' = "render"
    /\ UNCHANGED <<subtitlesRaw, searchTokens, subtitles, chunks, hlVars, scanVars, pageVars, srvVars>>

\* renderSubtitles(): nothing is rendered for an absent transcript, otherwise
\* getMatchingSubtitles() is called and runs to its return
RenderSubtitles ==
    /\ segPc = "render"
    /\ IF subtitlesRaw = <<>>
       THEN /\ segPc' = "none"
            /\ UNCHANGED <<subtitles, chunks>>
       ELSE /\ subtitles' = ParseSubtitles(subtitlesRaw)
            /\ chunks' = GetMatchingSubtitles(subtitles', searchTokens, showFullTranscript)
            /\ segPc' = "rendered"
    /\ UNCHANGED <<subtitlesRaw, searchTokens, showFullTranscript, hlVars, scanVars, pageVars, srvVars>>

SegNext == ToggleFullTranscript \/ RenderSubtitles

SpecSegment == SegInit /\ [][SegNext]_vars

\* The value the loop condition assigns to pos: lowerText.indexOf(token.value, pos)
ScanFound == IndexOf(ToLowerCase(text), scanToken, scanPos)

\* One iteration of the while loop whose condition holds: the span is pushed
\* and pos advanced by the token's length
ScanPush ==
    /\ scanPc = "while"
    /\ Len(scanPositions) < MaxScanSteps
    /\ ScanFound # -1
    /\ scanPositions' = Append(scanPositions,
                               [start |-> ScanFound, end |-> ScanFound + Len(scanToken)])
    /\ scanPos' = ScanFound + Len(scanToken)
    /\ UNCHANGED <<scanToken, scanPc, hlVars, segVars, pageVars, srvVars>>

\* The loop condition fails (pos has become -1) and the callback returns
\* positions
ScanReturn ==
    /\ scanPc = "while"
    /\ ScanFound = -1
    /\ scanPos' = -1
    /\ scanPc' = "return"
    /\ UNCHANGED <<scanToken, scanPositions, hlVars, segVars, pageVars, srvVars>>

ScanNext == ScanPush \/ ScanReturn

SpecScan == ScanInit /\ [][ScanNext]_vars

----------------------------------------------------------------------------
(* Actions of MainPage *)

\* load() up to its await: Api.news is called with the given dates and flag.
\* The assignment of searchResult makes the page render again, and every
\* render() has a searchTimeout local of its own
LoadBegin(st, en, sub) ==
    /\ latestLoad.id < MaxLoads
    /\ loading' = TRUE
    /\ searchResult' = [items |-> <<>>, tokens |-> <<>>]
    /\ pendingLoads' = pendingLoads
           \cup {[id |-> latestLoad.id + 1, start |-> st, end |-> en, subs |-> sub]}
    /\ latestLoad' = [id |-> latestLoad.id + 1, start |-> st, end |-> en, subs |-> sub,
                      state |-> "pending"]
    /\ searchTimeout' = FALSE
    /\ pageOp' = "load"
    /\ UNCHANGED <<data, query, selectedBroadcasts, error, searchTimers>>

\* firstUpdated(): the start date is moved 30 days back and load() is called
FirstUpdated ==
    /\ pageOp = "constructed"
    /\ startDate' = endDate - 30
    /\ LoadBegin(startDate', endDate, pageSubtitles)
    /\ UNCHANGED <<endDate, pageSubtitles, hlVars, segVars, scanVars, srvVars>>

\* load() called on the element, of which it is a public method, at any time
\* after the first update
Load ==
    /\ pageOp # "constructed"
    /\ LoadBegin(startDate, endDate, pageSubtitles)
    /\ UNCHANGED <<startDate, endDate, pageSubtitles, hlVars, segVars, scanVars, srvVars>>

\* handleDateChange(), the change handler of the two date inputs and of the
\* subtitles checkbox.  The checkbox is rendered only while loading is false:
\* while loading, reading .checked of the missing element throws behind the
\* assignments of the dates, and load() is not reached
HandleDateChange ==
    /\ pageOp # "constructed"
    /\ \E dates \in DateInputs :
         /\ startDate' = dates[1]
         /\ endDate' = dates[2]
         /\ IF loading
            THEN /\ searchTimeout' = FALSE
                 /\ pageOp' = "dateChangeThrew"
                 /\ UNCHANGED <<pageSubtitles, data, query, selectedBroadcasts, searchResult,
                                loading, error, pendingLoads, latestLoad, searchTimers>>
            ELSE \E checked \in BOOLEAN :
                   /\ pageSubtitles' = checked
                   /\ LoadBegin(startDate', endDate', checked)
    /\ UNCHANGED <<hlVars, segVars, scanVars, srvVars>>

\* The rest of load() behind the await, for a request that is answered: data
\* is assigned, the selection reset, search() called, loading cleared
LoadResolved ==
    /\ \E req \in pendingLoads :
         /\ data' = NewsFor(req.start, req.end, req.subs)
         /\ pendingLoads' = pendingLoads \ {req}
         /\ latestLoad' = IF req.id = latestLoad.id
                          THEN [latestLoad EXCEPT !.state = "resolved"]
                          ELSE latestLoad
    /\ selectedBroadcasts' = {}
    /\ searchResult' = SearchPage(query, data', selectedBroadcasts', pageSubtitles)
    /\ loading' = FALSE
    /\ searchTimeout' = FALSE
    /\ pageOp' = "resolved"
    /\ UNCHANGED <<query, error, startDate, endDate, pageSubtitles, searchTimers,
                   hlVars, segVars, scanVars, srvVars>>

\* The catch and finally blocks of load(), for a request that fails
LoadRejected ==
    /\ \E req \in pendingLoads :
         /\ pendingLoads' = pendingLoads \ {req}
         /\ latestLoad' = IF req.id = latestLoad.id
                          THEN [latestLoad EXCEPT !.state = "rejected"]
                          ELSE latestLoad
    /\ error' = "Could not load data."
    /\ loading' = FALSE
    /\ searchTimeout' = IF error' # error \/ loading' # loading THEN FALSE ELSE searchTimeout
    /\ pageOp' = "rejected"
    /\ UNCHANGED <<data, query, selectedBroadcasts, searchResult, startDate, endDate,
                   pageSubtitles, searchTimers, hlVars, segVars, scanVars, srvVars>>

\* toggleBroadcast(title), the click handler of a broadcast button; the
\* buttons are rendered while loading is false
ToggleBroadcast ==
    /\ ~loading
    /\ \E title \in GetUniqueBroadcasts :
         selectedBroadcasts' = IF title \in selectedBroadcasts
                               THEN selectedBroadcasts \ {title}
                               ELSE selectedBroadcasts \cup {title}
    /\ searchResult' = SearchPage(query, data, selectedBroadcasts', pageSubtitles)
    /\ searchTimeout' = FALSE
    /\ pageOp' = "toggleBroadcast"
    /\ UNCHANGED <<data, query, loading, error, startDate, endDate, pageSubtitles,
                   pendingLoads, latestLoad, searchTimers, hlVars, segVars, scanVars, srvVars>>

\* handleSearchInput(), the input handler of the query input, rendered while
\* loading is false: the trimmed value becomes the query, the timeout this
\* render's searchTimeout refers to is cleared and a new one is set.  A changed
\* query makes the page render again
HandleSearchInput ==
    /\ ~loading
    /\ \E typed \in QueryInputs : query' = Trim(typed)
    /\ searchTimers' = searchTimers - (IF searchTimeout THEN 1 ELSE 0) + 1
    /\ searchTimers' <= MaxTimers
    /\ searchTimeout' = (query' = query)
    /\ pageOp' = "input"
    /\ UNCHANGED <<data, selectedBroadcasts, searchResult, loading, error, startDate,
                   endDate, pageSubtitles, pendingLoads, latestLoad,
                   hlVars, segVars, scanVars, srvVars>>

\* The callback of a search timeout: search()
SearchTimeout ==
    /\ searchTimers > 0
    /\ searchResult' = SearchPage(query, data, selectedBroadcasts, pageSubtitles)
    /\ searchTimers' = searchTimers - 1
    /\ searchTimeout' = FALSE
    /\ pageOp' = "timeout"
    /\ UNCHANGED <<data, query, selectedBroadcasts, loading, error, startDate, endDate,
                   pageSubtitles, pendingLoads, latestLoad, hlVars, segVars, scanVars, srvVars>>

PageNext ==
    \/ FirstUpdated
    \/ Load
    \/ HandleDateChange
    \/ LoadResolved
    \/ LoadRejected
    \/ ToggleBroadcast
    \/ HandleSearchInput
    \/ SearchTimeout

SpecPage == PageInit /\ [][PageNext]_vars

----------------------------------------------------------------------------
(* Actions of the server's scraping *)

\* scrapeLoop() up to the first await of checkAndScrapeHistorical(): the 30
\* dates are built and scrapeTv is called for the first of them
EnterScrapeLoop ==
    /\ scrapePc' = "historical"
    /\ dateIdx' = 0

\* The call of scrapeLoop() at the server's start
ScrapeLoop ==
    /\ scrapePc = "start"
    /\ EnterScrapeLoop
    /\ UNCHANGED <<historicalFailures, continuousPc, hlVars, segVars, scanVars, pageVars>>

\* The awaited scrapeTv(date) of checkAndScrapeHistorical() is fulfilled:
\* scrapeTv is called for the next date or, behind the last date,
\* continuousScrape() is called and runs up to its first await
HistoricalScraped ==
    /\ scrapePc = "historical"
    /\ IF dateIdx + 1 < HistoricalDays
       THEN /\ dateIdx' = dateIdx + 1
            /\ UNCHANGED <<scrapePc, continuousPc>>
       ELSE /\ scrapePc' = "returned"
            /\ continuousPc' = "yesterday"
            /\ UNCHANGED dateIdx
    /\ UNCHANGED <<historicalFailures, hlVars, segVars, scanVars, pageVars>>

\* The awaited scrapeTv(date) of checkAndScrapeHistorical() is rejected: the
\* catch block of scrapeLoop() logs the error and calls scrapeLoop() again
HistoricalFailed ==
    /\ scrapePc = "historical"
    /\ historicalFailures' = Min(historicalFailures + 1, MaxCountedFailures)
    /\ EnterScrapeLoop
    /\ UNCHANGED <<continuousPc, hlVars, segVars, scanVars, pageVars>>

\* continuousScrape(): scrapeTv(yesterday) is fulfilled, scrapeTv(today) is
\* called
YesterdayScraped ==
    /\ continuousPc = "yesterday"
    /\ continuousPc' = "today"
    /\ UNCHANGED <<scrapePc, dateIdx, historicalFailures, hlVars, segVars, scanVars, pageVars>>

\* continuousScrape(): scrapeTv(today) is fulfilled, the timeout is set
TodayScraped ==
    /\ continuousPc = "today"
    /\ continuousPc' = "timeout"
    /\ UNCHANGED <<scrapePc, dateIdx, historicalFailures, hlVars, segVars, scanVars, pageVars>>

\* continuousScrape(): one of its two scrapeTv calls is rejected, the error
\* is logged, the timeout is set
ContinuousFailed ==
    /\ continuousPc \in {"yesterday", "today"}
    /\ continuousPc' = "timeout"
    /\ UNCHANGED <<scrapePc, dateIdx, historicalFailures, hlVars, segVars, scanVars, pageVars>>

\* The timeout of 15 minutes expires: continuousScrape() runs again
ContinuousScrape ==
    /\ continuousPc = "timeout"
    /\ continuousPc' = "yesterday"
    /\ UNCHANGED <<scrapePc, dateIdx, historicalFailures, hlVars, segVars, scanVars, pageVars>>

ScrapeNext ==
    \/ ScrapeLoop
    \/ HistoricalScraped
    \/ HistoricalFailed
    \/ YesterdayScraped
    \/ TodayScraped
    \/ ContinuousFailed
    \/ ContinuousScrape

\* The event loop runs the continuation of every settled promise and the
\* callback of every expired timeout; every call of scrapeTv settles
SpecScrape == ScrapeInit /\ [][ScrapeNext]_vars /\ WF_vars(ScrapeNext)

----------------------------------------------------------------------------
(* Helpers of the properties *)

IsMark(c) == c \in {OpenMark, CloseMark}
NotMark(c) == ~IsMark(c)

\* The output with the inserted markers deleted
StripMarks(out) == SelectSeq(out, NotMark)

\* Number of marker pairs open after the first n elements of out
RECURSIVE MarkDepth(_, _)
MarkDepth(out, n) ==
    IF n = 0 THEN 0
    ELSE MarkDepth(out, n - 1)
           + (IF out[n] = OpenMark THEN 1 ELSE IF out[n] = CloseMark THEN -1 ELSE 0)

\* Markers come in pairs that are closed before the next one opens
WellMarked(out) ==
    /\ \A n \in 0..Len(out) : MarkDepth(out, n) \in {0, 1}
    /\ MarkDepth(out, Len(out)) = 0

Covers(spans, p) == \E i \in 1..Len(spans) : spans[i].start <= p /\ p < spans[i].end

\* The permutations of 1..n, for every length n of a token list
IndexOrders ==
    [n \in 0..MaxTokens |-> {f \in [1..n -> 1..n] : \A i, j \in 1..n : i # j => f[i] # f[j]}]

\* All orders of the elements of s
OrdersOf(s) == {[i \in 1..Len(s) |-> s[f[i]]] : f \in IndexOrders[Len(s)]}

\* All orders of the spans ms that are ascending by start (every order of the
\* spans of equal start); of several equal spans the first is taken, which
\* yields the same sequences
RECURSIVE SortedOrders(_, _)
SortedOrders(ms, idx) ==
    IF idx = {} THEN {<<>>}
    ELSE LET least == {i \in idx : \A j \in idx : ms[i].start <= ms[j].start}
             firsts == {i \in least : \A j \in least : ms[j] = ms[i] => i <= j}
         IN UNION {{<<ms[i]>> \o r : r \in SortedOrders(ms, idx \ {i})} : i \in firsts}

Range(f) == {f[i] : i \in DOMAIN f}

\* The cue's text contains at least one token, case-insensitively
ContainsToken(sub, toks) ==
    LET lower == ToLowerCase(sub.text)
    IN \E k \in 1..Len(toks) : \E i \in 0..Len(lower) :
         /\ i + Len(toks[k]) <= Len(lower)
         /\ SubSeq(lower, i + 1, i + Len(toks[k])) = toks[k]

\* The 0-based positions, in the parsed cue sequence, of the cues with a token
MatchPositions == {p \in 0..(Len(subtitles) - 1) : ContainsToken(subtitles[p + 1], searchTokens)}

\* The 0-based position of a parsed cue in the parsed cue sequence
PosOf(sub) == CHOOSE p \in 0..(Len(subtitles) - 1) : subtitles[p + 1] = sub

InMatchesOf(w, p) == subtitles[p + 1] \in Range(chunks[w].matches)

\* getMatchingSubtitles() has returned in snippet mode with tokens
SnippetMode == segPc = "rendered" /\ ~showFullTranscript /\ searchTokens # <<>>

\* The cues at the positions lo..hi that are not in skip, ascending
CuesBetween(lo, hi, skip) ==
    LET range == [i \in 1..(hi - lo + 1) |-> lo + i - 1]
        Kept(p) == p \notin skip
        kept == SelectSeq(range, Kept)
    IN [i \in 1..Len(kept) |-> subtitles[kept[i] + 1]]

----------------------------------------------------------------------------
(* Properties of highlightText *)

\* C1: deleting the inserted <mark> and </mark> markers from
\* highlightText(text, tokens) gives back text exactly, and every character
\* is outside all markers or inside exactly one marker pair.
C1_HighlightPartition ==
    hlPc = "done" =>
        /\ StripMarks(highlighted) = text
        /\ WellMarked(highlighted)

\* C1 case: two found spans overlap, and the output has marked and unmarked text
C1_Witness ==
    /\ hlPc = "done"
    /\ \E i, j \in 1..Len(matches) :
          /\ matches[i].start < matches[j].start
          /\ matches[j].start < matches[i].end
          /\ matches[i].end < matches[j].end
    /\ highlighted[1] # OpenMark
    /\ \E n \in 1..Len(highlighted) : highlighted[n] = OpenMark

\* C2: the merged spans are the interval union of the found spans: the same
\* positions are covered, the merged spans ascend by start, and consecutive
\* merged spans a, b satisfy a.end < b.start.
C2_MergedIsUnion ==
    hlPc = "done" =>
        /\ \A p \in 0..(2 * Len(text)) : Covers(mergedMatches, p) <=> Covers(matches, p)
        /\ \A i \in 1..Len(mergedMatches) : mergedMatches[i].start < mergedMatches[i].end
        /\ \A i \in 1..(Len(mergedMatches) - 1) :
              mergedMatches[i].end < mergedMatches[i + 1].start

\* C2 case: two found spans touch and are fused, a third one lies apart and
\* stays a merged span of its own
C2_Witness ==
    /\ hlPc = "done"
    /\ Len(matches) = 3
    /\ matches[1].end = matches[2].start
    /\ matches[2].end < matches[3].start
    /\ Len(mergedMatches) = 2

\* C3: for a fixed text the merged spans and the returned string are the same
\* for every permutation of the token list and for every order of the found
\* spans of equal start.
C3_PermutationInvariant ==
    hlPc = "done" /\ tokens # <<>> =>
        /\ \A perm \in OrdersOf(tokens) :
              LET merged == MergeMatches(FoundMatches(text, perm))
              IN /\ merged = mergedMatches
                 /\ BuildChunks(text, merged, 0) = highlighted
        /\ \A order \in SortedOrders(matches, 1..Len(matches)) :
              MergeMatches(order) = mergedMatches

\* C3 case: two different tokens whose spans start at the same position
C3_Witness ==
    /\ hlPc = "done"
    /\ Len(tokens) >= 2
    /\ tokens[1] # tokens[2]
    /\ \E i, j \in 1..Len(matches) :
          matches[i].start = matches[j].start /\ matches[i].end # matches[j].end
    /\ Len(mergedMatches) >= 1

----------------------------------------------------------------------------
(* Properties of TVSegment *)

\* C4: in snippet mode every parsed cue whose text contains a token is in the
\* matches of exactly one returned window, no other cue is in any window's
\* matches, and each window's matches are in ascending cue order.
C4_MatchesInOneWindow ==
    SnippetMode =>
        LET mp == MatchPositions
        IN /\ \A p \in mp : Cardinality({w \in 1..Len(chunks) : InMatchesOf(w, p)}) = 1
           /\ \A w \in 1..Len(chunks) : \A k \in 1..Len(chunks[w].matches) :
                \E p \in mp : chunks[w].matches[k] = subtitles[p + 1]
           /\ \A w \in 1..Len(chunks) : \A k \in 1..(Len(chunks[w].matches) - 1) :
                PosOf(chunks[w].matches[k]) < PosOf(chunks[w].matches[k + 1])

\* C4 case: two windows, one of them with several matches, behind a dropped block
C4_Witness ==
    /\ SnippetMode
    /\ Len(chunks) = 2
    /\ Len(chunks[2].matches) = 2
    /\ \E k \in 1..Len(subtitles) : subtitles[k].index # k - 1
    /\ Len(subtitles) > 3

\* C5: in snippet mode no cue is both in a window's matches and in that
\* window's context, for every raw transcript.
C5_MatchesContextDisjoint ==
    SnippetMode =>
        \A w \in 1..Len(chunks) :
            Range(chunks[w].matches) \cap Range(chunks[w].context) = {}

\* C6: in snippet mode two matching cues that are consecutive in position
\* order are in the same window iff their positions differ by at most
\* 2 * contextSize = 10.
C6_GroupedByGapToPrevious ==
    SnippetMode =>
        LET mp == MatchPositions
        IN \A p, q \in mp :
             (p < q /\ ~\E r \in mp : p < r /\ r < q) =>
                 ((\E w \in 1..Len(chunks) : InMatchesOf(w, p) /\ InMatchesOf(w, q))
                    <=> q - p <= 2 * contextSize)

\* C6 case: a chain of three matches in one window whose first and last match
\* are more than 10 apart
C6_Witness ==
    /\ SnippetMode
    /\ \E w \in 1..Len(chunks) :
         /\ Len(chunks[w].matches) = 3
         /\ PosOf(chunks[w].matches[3]) - PosOf(chunks[w].matches[1]) > 2 * contextSize

\* C7: in snippet mode the context of each window is exactly the cues at the
\* positions firstMatch - 5 .. lastMatch + 5, clamped to the cue sequence, that
\* are not match positions of the window, in ascending order.
C7_ContextIsPadding ==
    SnippetMode =>
        \A w \in 1..Len(chunks) :
            LET mpos == [k \in 1..Len(chunks[w].matches) |-> PosOf(chunks[w].matches[k])]
                lo == Max(0, mpos[1] - contextSize)
                hi == Min(Len(subtitles) - 1, mpos[Len(mpos)] + contextSize)
            IN chunks[w].context = CuesBetween(lo, hi, Range(mpos))

\* C8: with showFullTranscript and tokens, exactly one window is returned; its
\* context is the entire parsed cue sequence and its matches are the cues with
\* a token, in order.
C8_FullTranscriptWindow ==
    (segPc = "rendered" /\ showFullTranscript /\ searchTokens # <<>>) =>
        /\ Len(chunks) = 1
        /\ chunks[1].context = subtitles
        /\ chunks[1].matches = CuesBetween(0, Len(subtitles) - 1,
                                           (0..(Len(subtitles) - 1)) \ MatchPositions)

\* C8 case: some cues of the transcript match and some do not
C8_Witness ==
    /\ segPc = "rendered" /\ showFullTranscript /\ searchTokens # <<>>
    /\ Len(chunks) = 1
    /\ Len(chunks[1].matches) >= 2
    /\ Len(chunks[1].matches) < Len(chunks[1].context)

\* C9 as claimed: with no tokens getMatchingSubtitles returns no windows, for
\* both values of showFullTranscript.
C9_NoTokensNoWindows ==
    (segPc = "rendered" /\ searchTokens = <<>>) => chunks = <<>>

\* C9 as amended: with no tokens getMatchingSubtitles returns no windows when
\* showFullTranscript is false, and one window with no matches and the entire
\* parsed cue sequence as context when showFullTranscript is true.
C9_NoTokensByMode ==
    (segPc = "rendered" /\ searchTokens = <<>>) =>
        chunks = IF showFullTranscript
                 THEN <<[matches |-> <<>>, context |-> subtitles]>>
                 ELSE <<>>

\* C9 case: no tokens, full transcript shown, the transcript has cues
C9_Witness ==
    /\ segPc = "rendered"
    /\ searchTokens = <<>>
    /\ showFullTranscript
    /\ Len(subtitles) > 0
    /\ Len(chunks) = 1

\* C10: the k-th cue returned by parseSubtitles (counting from 0) has index k,
\* for every raw transcript.
C10_IndicesDense ==
    segPc = "rendered" => \A k \in 1..Len(subtitles) : subtitles[k].index = k - 1

\* The cues of window w, matches and context
CuesOf(w) == Range(chunks[w].matches) \cup Range(chunks[w].context)

\* The positions of the first and of the last match of window w
FirstMatchPos(w) == PosOf(chunks[w].matches[1])
LastMatchPos(w) == PosOf(chunks[w].matches[Len(chunks[w].matches)])

\* C12: in snippet mode no cue is in more than one returned window, as match
\* or as context; the padded position ranges [firstMatch - 5, lastMatch + 5]
\* of two distinct windows do not overlap, and the windows are returned in
\* ascending position order.
C12_WindowsDisjointAscending ==
    SnippetMode =>
        \A v, w \in 1..Len(chunks) :
            v < w =>
                /\ CuesOf(v) \cap CuesOf(w) = {}
                /\ LastMatchPos(v) + contextSize < FirstMatchPos(w) - contextSize
                /\ \A c \in CuesOf(v) : \A d \in CuesOf(w) : PosOf(c) < PosOf(d)

\* C12 case: three windows whose padded ranges are adjacent, behind a dropped
\* block
C12_Witness ==
    /\ SnippetMode
    /\ Len(chunks) = 3
    /\ FirstMatchPos(2) - LastMatchPos(1) = 2 * contextSize + 1
    /\ FirstMatchPos(3) - LastMatchPos(2) = 2 * contextSize + 1
    /\ Len(chunks[1].context) > 0
    /\ \E k \in 1..Len(subtitles) : subtitles[k].index # k - 1

----------------------------------------------------------------------------
(* Properties of the scan of one token *)

\* C13: for every text and every non-empty lowercase token, the spans found
\* for that single token are in ascending order and pairwise non-overlapping,
\* every span satisfies 0 <= start < end <= len(text) with
\* end - start = len(token), and the lowercased text between start and end
\* equals the token.
C13_TokenSpansWellFormed ==
    (scanPc = "return" /\ scanToken # <<>>) =>
        /\ \A i \in 1..(Len(scanPositions) - 1) :
              scanPositions[i].end <= scanPositions[i + 1].start
        /\ \A i \in 1..Len(scanPositions) :
              LET span == scanPositions[i]
              IN /\ 0 <= span.start
                 /\ span.start < span.end
                 /\ span.end <= Len(text)
                 /\ span.end - span.start = Len(scanToken)
                 /\ SubSeq(ToLowerCase(text), span.start + 1, span.end) = scanToken

\* C14: for every text, span finding with an empty token terminates and
\* yields no spans: no span is ever pushed for an empty token.
C14_EmptyTokenNoSpans ==
    scanToken = <<>> => scanPositions = <<>>

----------------------------------------------------------------------------
(* Properties of MainPage *)

\* The handler that ran last ended with a call of search()
SearchRan == pageOp \in {"resolved", "toggleBroadcast", "timeout"}

\* The positions of the loaded items that the selection of broadcasts keeps
KeptPositions ==
    {i \in 1..Len(data) : selectedBroadcasts = {} \/ data[i].title \in selectedBroadcasts}

\* C11: when the query has fewer than 3 characters, search() sets
\* searchResult.tokens to the empty list and searchResult.items to the loaded
\* items in loaded order, restricted to the selected broadcast titles when
\* any are selected; the items are never empty when the loaded list is not.
C11_ShortQueryShowsAll ==
    (SearchRan /\ Len(query) < 3) =>
        LET kept == SortedIndices(KeptPositions)
        IN /\ searchResult.tokens = <<>>
           /\ searchResult.items = [k \in 1..Len(kept) |-> data[kept[k]]]
           /\ data # <<>> => searchResult.items # <<>>

\* C11 case: the search timeout ran with a typed query of 2 characters while
\* one of two loaded broadcast titles is selected
C11_Witness ==
    /\ pageOp = "timeout"
    /\ Len(query) = 2
    /\ Cardinality(selectedBroadcasts) = 1
    /\ Cardinality(GetUniqueBroadcasts) = 2
    /\ Len(searchResult.items) > 0
    /\ Len(searchResult.items) < Len(data)

\* C16: once every load() has completed and the most recently started one was
\* answered, data and searchResult are those of the most recently started
\* load.
C16_LatestLoadWins ==
    (pendingLoads = {} /\ latestLoad.state = "resolved") =>
        LET news == NewsFor(latestLoad.start, latestLoad.end, latestLoad.subs)
        IN /\ data = news
           /\ \A i \in 1..Len(searchResult.items) : searchResult.items[i] \in Range(news)

----------------------------------------------------------------------------
(* Properties of the server's scraping *)

\* C15: if the initial historical scrape fails, the continuous scrape loop is
\* still eventually started, for every pattern of failures of scrapeTv.
C15_ContinuousEventuallyStarted ==
    (historicalFailures > 0) ~> (continuousPc # "none")

====
